---- MODULE Spec2Model ----
(***************************************************************************)
(* Model of src/multimethod.ts: a multimethod is a closure over a plain    *)
(* object `methods` ({} with Object.prototype as its prototype), a         *)
(* dispatch function and an optional default method stored under the       *)
(* module-level symbol defaultDispatch.                                    *)
(*                                                                         *)
(* `methods` is modelled as a JavaScript ordinary object: its own          *)
(* properties plus its [[Prototype]], with property reads ([[Get]]) and    *)
(* strict-mode assignments ([[Set]]) following the prototype chain.        *)
(***************************************************************************)
EXTENDS Integers, Sequences, FiniteSets, TLC

\* ------------------------------------------------------------------ bounds

\* Number of distinct user-supplied method implementations (functions).
MaxImpl == 2

\* Number of distinct payloads an argument of one dispatch value can carry.
MaxW == 1

\* ------------------------------------------------------------- JS values

\* The values a property read of `methods` can produce.  All are records of
\* one shape: t is the kind of value, id tells values of one kind apart.
Undefined == [t |-> "undefined", id |-> 0]

\* A user-supplied Method (an arrow function), src/multimethod.ts:9.
Fn(i) == [t |-> "function", id |-> i]

Impls == 1 .. MaxImpl

\* Object.prototype, the [[Prototype]] of the object literal {} (line 53).
ObjectPrototype == [t |-> "object", id |-> 0]

\* Object.prototype.toString, inherited by every object literal.
ObjProtoToString == [t |-> "builtin", id |-> 0]

\* Function.prototype.toString, inherited by every function.
FunProtoToString == [t |-> "builtin", id |-> 1]

\* The own, non-writable `name` property of function i (a string).
FnName(i) == [t |-> "string", id |-> i]

\* method == null (line 57) and the left operand test of ?? (line 56).
IsNullish(v) == v = Undefined

IsCallable(v) == v.t \in {"function", "builtin"}

\* ---------------------------------------------------------- property keys

\* A string property key: what a dispatch value (a string) indexes.
StrKey(s) == [sym |-> FALSE, s |-> s]

\* A default slot keyed by a string, as `const defaultDispatch =
\* "defaultDispatch"` would make it: a key that a dispatch value can equal.
defaultDispatchString == StrKey("defaultDispatch")

\* const defaultDispatch = Symbol("defaultDispatch"): a symbol-valued key,
\* different from every string key, also from the string "defaultDispatch".
defaultDispatch == [sym |-> TRUE, s |-> "defaultDispatch"]

\* The dispatch values (type parameter Dispatch extends string) of the
\* model.  "defaultDispatch" is an ordinary string that happens to spell
\* the symbol's description; "toString" and "name" are ordinary strings
\* that name properties of Object.prototype and of functions; "__proto__"
\* is an ordinary string that names the accessor of Object.prototype.
Tokens == {"defaultDispatch", "toString", "name", "__proto__"}

ProtoKey == StrKey("__proto__")

\* The keys under which `methods` can hold an own data property.
OwnKeys == {StrKey(s) : s \in Tokens \ {"__proto__"}} \cup {defaultDispatch}

\* ------------------------------------------------------- the methods object

\* const methods = {} (line 53): no own property, prototype Object.prototype.
EmptyMethods == [own |-> [k \in OwnKeys |-> Undefined], proto |-> ObjectPrototype]

\* [[Get]] on a prototype p of `methods`, for a key `methods` does not own.
\*  - Object.prototype has a data property toString;
\*  - a function has an own `name`, and inherits toString from
\*    Function.prototype (which shadows Object.prototype's);
\*  - no prototype has a property keyed by the symbol.
ProtoGet(p, k) ==
    IF k.sym THEN Undefined
    ELSE IF p = ObjectPrototype
         THEN (IF k.s = "toString" THEN ObjProtoToString ELSE Undefined)
         ELSE \* p is a function
              CASE k.s = "name"     -> FnName(p.id)
                [] k.s = "toString" -> FunProtoToString
                [] OTHER            -> Undefined

\* methods[k] as an expression (lines 56): own property first, then the
\* prototype chain; "__proto__" is the accessor of Object.prototype, whose
\* getter returns the object's [[Prototype]].
Get(m, k) ==
    IF k = ProtoKey THEN m.proto
    ELSE IF m.own[k] # Undefined THEN m.own[k]
    ELSE ProtoGet(m.proto, k)

\* Whether the strict-mode assignment methods[k] = v succeeds.  It fails
\* (TypeError) exactly when `methods` has no own property k and inherits a
\* non-writable data property k: the `name` of a function prototype.
CanSet(m, k) ==
    \/ k = ProtoKey
    \/ m.own[k] # Undefined
    \/ ~(m.proto.t = "function" /\ ~k.sym /\ k.s = "name")

\* The object after a successful methods[k] = v (lines 61, 65); v is a
\* function.  "__proto__" runs the setter, which replaces [[Prototype]].
Set(m, k, v) ==
    IF k = ProtoKey THEN [m EXCEPT !.proto = v]
    ELSE [m EXCEPT !.own[k] = v]

\* -------------------------------------------------- arguments and results

\* The argument lists (Args) of the model: one shape object with a dispatch
\* value and a payload, or null.
Shape(type, w) == [type |-> type, w |-> w]

NullArg == [type |-> "null", w |-> 0]

ArgsSet == {Shape(s, w) : s \in Tokens, w \in 1 .. MaxW} \cup {NullArg}

\* How a call ends: k is "return" or "throw"; src is who produced the value
\* or the error; id and args identify the value (the result of function id
\* applied to args); tok is the dispatch value an Error message names.
Completion(k, src, id, a, tok) ==
    [k |-> k, src |-> src, id |-> id, args |-> a, tok |-> tok]

NoCompletion == Completion("none", "", 0, NullArg, "")

\* The dispatch function of the documented example, (shape) => shape.type:
\* returns the dispatch value, or throws a TypeError when shape is null.
dispatchFn(a) ==
    IF a = NullArg
    THEN Completion("throw", "dispatchFn", 0, a, "")
    ELSE Completion("return", "dispatchFn", 0, a, a.type)

\* Method implementation 1 throws an error of its own, the others return.
ImplThrows(i) == i = 1

\* Method implementation 2 returns undefined (a nullish, falsy value); the
\* implementations that neither throw nor return undefined return an object.
ImplReturnsNullish(i) == i = 2

\* Whether a completion is the return of a nullish value.
ReturnsNullish(c) ==
    c.k = "return" /\ c.src = "method" /\ ImplReturnsNullish(c.id)

\* method(...args) (line 58) for a callable `method`, called with no `this`:
\*  - a user function returns its result for these arguments, or throws;
\*  - Object.prototype.toString returns "[object Undefined]";
\*  - Function.prototype.toString throws a TypeError (this is no function).
Call(v, a) ==
    CASE v.t = "function" ->
           Completion(IF ImplThrows(v.id) THEN "throw" ELSE "return",
                      "method", v.id, a, "")
      [] v = ObjProtoToString -> Completion("return", "builtin", v.id, NullArg, "")
      [] v = FunProtoToString -> Completion("throw", "builtin", v.id, NullArg, "")

\* method(...args) for a `method` that is neither nullish nor callable:
\* TypeError "method is not a function".
NotAFunction(v, a) == Completion("throw", "engine", v.id, a, v.t)

\* throw new Error(`No method defined for dispatch ${dispatch}`) (line 57).
NoMethodDefined(tok, a) == Completion("throw", "multimethod", 0, a, tok)

\* The events of one invocation, in order: the call of dispatchFn, the
\* property reads of `methods`, the call of the resolved method.
Ev(e, k, v) == [e |-> e, key |-> k, v |-> v]

\* The reads of methods[defaultDispatch] ?? methods[dispatch]: the operands
\* of ?? exchanged, so that the default method is preferred.
LookupEventsDefaultFirst(m, tok) ==
    IF ~IsNullish(Get(m, defaultDispatch))
    THEN << Ev("get", defaultDispatch, Get(m, defaultDispatch)) >>
    ELSE << Ev("get", defaultDispatch, Get(m, defaultDispatch)),
            Ev("get", StrKey(tok), Get(m, StrKey(tok))) >>

\* The property reads that methods[dispatch] ?? methods[defaultDispatch]
\* (line 56) performs for dispatch value tok, each with the value read: the
\* right operand of ?? is evaluated only when the left one is nullish.
LookupEvents(m, tok) ==
    IF ~IsNullish(Get(m, StrKey(tok)))
    THEN << Ev("get", StrKey(tok), Get(m, StrKey(tok))) >>
    ELSE << Ev("get", StrKey(tok), Get(m, StrKey(tok))),
            Ev("get", defaultDispatch, Get(m, defaultDispatch)) >>

\* const method = methods[dispatch] ?? methods[defaultDispatch] (line 56):
\* the value of the last operand evaluated.
Lookup(m, tok) == LookupEvents(m, tok)[Len(LookupEvents(m, tok))].v

\* ------------------------------------------------------------------ state

\* The multimethods (values returned by multimethod(...)) the model names.
Registries == {"mm1", "mm2"}

VARIABLES
    live,          \* the multimethods the program has created
    defaultMethod, \* per multimethod: the defaultMethod argument (line 51)
    methods,       \* per multimethod: its `methods` object (line 53)
    registered,    \* per multimethod and dispatch value: the implementation
                   \* of the last completed method(dispatch, ...) call, 0 if none
    lastCall,      \* the most recent call of .method: receiver, arguments,
                   \* what was registered before it, and what it returned
    pc,            \* position of the invocation in progress
    callee,        \* the multimethod being invoked
    args,          \* its arguments
    method,        \* the `method` local of line 56, once resolved
    result,        \* how the invocation ended
    trace,         \* the events of the invocation so far
    found          \* registered[callee][dispatch] when line 56 ran, -1 before

vars == << live, defaultMethod, methods, registered, lastCall,
           pc, callee, args, method, result, trace, found >>

frame == << pc, callee, args, method, result, trace, found >>

\* A .method call: the receiver, the arguments, the implementation that was
\* registered for the dispatch value before it (0 if none), and the value it
\* returned ("TypeError" if it threw).
CallRecord(r, tok, i, prev, ret) ==
    [recv |-> r, dispatch |-> tok, method |-> i, prev |-> prev, ret |-> ret]

NoCall == CallRecord("", "", 0, 0, "")

\* multimethod(dispatchFn, defaultMethod) (lines 49-67): the `methods`
\* object the returned closure holds.
Multimethod(dflt) ==
    IF dflt # Undefined
    THEN Set(EmptyMethods, defaultDispatch, dflt)
    ELSE EmptyMethods

\* The state after the program has created the multimethods of L, each with
\* or without a default method.
InitWith(L) ==
    /\ live = L
    /\ defaultMethod \in [Registries -> {Undefined} \cup {Fn(i) : i \in Impls}]
    /\ \A r \in Registries \ L : defaultMethod[r] = Undefined
    /\ methods = [r \in Registries |-> Multimethod(defaultMethod[r])]
    /\ registered = [r \in Registries |-> [t \in Tokens |-> 0]]
    /\ lastCall = NoCall
    /\ pc = "idle"
    /\ callee = ""
    /\ args = NullArg
    /\ method = Undefined
    /\ result = NoCompletion
    /\ trace = << >>
    /\ found = -1

Init == InitWith({"mm1"})

\* ----------------------------------------------------------- registration

\* What multimethod.method returns: `return multimethod` (line 62).
MethodReturn(r) == r

\* A .method that leaves the receiver's object as it is (it registers in a
\* copy).
MethodAssignCopy(m, tok, i) == m

\* methods[dispatch] ??= method: a .method that keeps what is there.
MethodAssignFirstWins(m, tok, i) ==
    IF IsNullish(Get(m, StrKey(tok))) THEN Set(m, StrKey(tok), Fn(i)) ELSE m

\* A .method that builds a new table holding the default slot and the one
\* method registered, in place of adding to the table: what was registered
\* before is dropped.
MethodAssignFresh(m, tok, i) ==
    Set([own |-> [k \in OwnKeys |->
                     IF k = defaultDispatch THEN m.own[k] ELSE Undefined],
         proto |-> ObjectPrototype],
        StrKey(tok), Fn(i))

\* methods[dispatch] = method (line 61) on the receiver's object.
MethodAssign(m, tok, i) == Set(m, StrKey(tok), Fn(i))

\* A .method that writes to one table shared by all multimethods (a
\* module-level `methods` in place of the one line 53 creates per call).
MethodShared(r, tok, i) ==
    /\ pc \in {"idle", "dispatchFn", "method"}
    /\ pc = "method" => method.t = "function"
    /\ IF CanSet(methods[r], StrKey(tok))
       THEN /\ methods' = [q \in Registries |-> MethodAssign(methods[q], tok, i)]
            /\ registered' = [registered EXCEPT ![r][tok] = i]
            /\ lastCall' = CallRecord(r, tok, i, registered[r][tok],
                                       MethodReturn(r))
       ELSE /\ lastCall' = CallRecord(r, tok, i, registered[r][tok],
                                       "TypeError")
            /\ UNCHANGED << methods, registered >>
    /\ UNCHANGED << live, defaultMethod, frame >>

\* multimethod.method(dispatch, method) (lines 60-63), called on receiver r
\* by top-level code or by a user function that is running.  The assignment
\* either succeeds, and the call returns the multimethod, or throws the
\* TypeError of a strict-mode assignment to a read-only inherited property.
Method(r, tok, i) ==
    /\ pc \in {"idle", "dispatchFn", "method"}
    /\ pc = "method" => method.t = "function"
    /\ IF CanSet(methods[r], StrKey(tok))
       THEN /\ methods' = [methods EXCEPT ![r] = MethodAssign(@, tok, i)]
            /\ registered' = [registered EXCEPT ![r][tok] = i]
            /\ lastCall' = CallRecord(r, tok, i, registered[r][tok],
                                       MethodReturn(r))
       ELSE /\ lastCall' = CallRecord(r, tok, i, registered[r][tok],
                                       "TypeError")
            /\ UNCHANGED << methods, registered >>
    /\ UNCHANGED << live, defaultMethod, frame >>

\* The receivers a .method call can be made on: a multimethod the program
\* holds, or the value the previous .method call returned (chaining).
Receivers == live \cup ({lastCall.ret} \cap Registries)

\* -------------------------------------------------------------- invocation

\* multimethod(...args) is entered (line 54): dispatchFn starts running.
MultimethodEnter(r, a) ==
    /\ pc = "idle"
    /\ pc' = "dispatchFn"
    /\ callee' = r
    /\ args' = a
    /\ method' = Undefined
    /\ result' = NoCompletion
    /\ trace' = << Ev("dispatchFn", StrKey(""), Undefined) >>
    /\ found' = -1
    /\ UNCHANGED << live, defaultMethod, methods, registered, lastCall >>

\* The arguments the resolved method is called with: method(...args).
Forward(a, tok) == a

\* dispatchFn(...args) ends (line 55); when it returned, lines 56-58 look
\* the method up and either throw or start running it.  This is the part of
\* the step that concerns the invocation itself.
DispatchStep ==
    /\ pc = "dispatchFn"
    /\ LET d == dispatchFn(args)
           m == Lookup(methods[callee], d.tok)
           evs == trace \o LookupEvents(methods[callee], d.tok)
       IN  IF d.k = "throw"
           THEN /\ pc' = "done"
                /\ result' = d
                /\ UNCHANGED << method, trace, found >>
           ELSE /\ found' = registered[callee][d.tok]
                /\ IF IsNullish(m)
                   THEN /\ pc' = "done"
                        /\ result' = NoMethodDefined(d.tok, args)
                        /\ trace' = evs
                        /\ UNCHANGED method
                   ELSE IF ~IsCallable(m)
                   THEN /\ pc' = "done"
                        /\ result' = NotAFunction(m, args)
                        /\ trace' = evs
                        /\ method' = m
                   ELSE /\ pc' = "method"
                        /\ method' = m
                        /\ trace' = Append(evs, Ev("call", StrKey(d.tok), m))
                        /\ UNCHANGED result
    /\ UNCHANGED << callee, args >>

\* Lines 55-58 with a lookup that stores the method it resolved under the
\* dispatch value (a memoising lookup).
MultimethodDispatchMemo ==
    /\ DispatchStep
    /\ methods' = IF method' # Undefined /\ IsCallable(method')
                  THEN [methods EXCEPT ![callee] =
                           Set(@, StrKey(dispatchFn(args).tok), method')]
                  ELSE methods
    /\ UNCHANGED << live, defaultMethod, registered, lastCall >>

\* Lines 55-58 read `methods` and write nothing.
MultimethodDispatch ==
    /\ DispatchStep
    /\ UNCHANGED << live, defaultMethod, methods, registered, lastCall >>

\* Line 58 inside a try/catch that turns an error of the method into the
\* "No method defined" error.
MultimethodReturnCatch ==
    /\ pc = "method"
    /\ pc' = "done"
    /\ result' = IF Call(method, args).k = "throw"
                 THEN NoMethodDefined(dispatchFn(args).tok, args)
                 ELSE Call(method, args)
    /\ UNCHANGED << live, defaultMethod, methods, registered, lastCall,
                    callee, args, method, trace, found >>

\* return method(...args) ?? <fallback>: line 58 with the result tested the
\* way line 56 tests the method, so that a nullish result counts as no
\* method.
MultimethodReturnCoalesce ==
    /\ pc = "method"
    /\ pc' = "done"
    /\ result' = IF ~ReturnsNullish(Call(method, args))
                 THEN Call(method, args)
                 ELSE IF defaultMethod[callee] # Undefined
                 THEN Call(defaultMethod[callee], args)
                 ELSE NoMethodDefined(dispatchFn(args).tok, args)
    /\ UNCHANGED << live, defaultMethod, methods, registered, lastCall,
                    callee, args, method, trace, found >>

\* The outcome taken from the method the table holds when the call ends,
\* not from the one line 56 resolved (a lookup bound late).
MultimethodReturnRelookup ==
    /\ pc = "method"
    /\ pc' = "done"
    /\ result' = LET late == Lookup(methods[callee], dispatchFn(args).tok)
                 IN  IF IsCallable(late) THEN Call(late, args)
                     ELSE NotAFunction(late, args)
    /\ UNCHANGED << live, defaultMethod, methods, registered, lastCall,
                    callee, args, method, trace, found >>

\* The running method ends; its completion is the invocation's (line 58).
MultimethodReturn ==
    /\ pc = "method"
    /\ pc' = "done"
    /\ result' = Call(method, Forward(args, dispatchFn(args).tok))
    /\ UNCHANGED << live, defaultMethod, methods, registered, lastCall,
                    callee, args, method, trace, found >>

\* The invoker has received the completion; no invocation is in progress.
MultimethodDone ==
    /\ pc = "done"
    /\ pc' = "idle"
    /\ callee' = ""
    /\ args' = NullArg
    /\ method' = Undefined
    /\ result' = NoCompletion
    /\ trace' = << >>
    /\ found' = -1
    /\ UNCHANGED << live, defaultMethod, methods, registered, lastCall >>

Next ==
    \/ \E r \in Receivers, tok \in Tokens, i \in Impls : Method(r, tok, i)
    \/ \E r \in live, a \in ArgsSet : MultimethodEnter(r, a)
    \/ MultimethodDispatch
    \/ MultimethodReturn
    \/ MultimethodDone

Spec == Init /\ [][Next]_vars

\* ------------------------------------------------- a program with two multimethods

\* The dispatch values the two-multimethod program registers methods for.
TwoTokens == {"defaultDispatch", "__proto__"}

\* The arguments the two-multimethod program invokes them with.
TwoArgs == {a \in ArgsSet : a.type \in TwoTokens}

\* A .method call made by top-level code (no invocation in progress).
MethodTop(r, tok, i) == pc = "idle" /\ Method(r, tok, i)

\* The program has called multimethod(...) twice: both multimethods exist,
\* each with its own `methods` object and its own default method, if any.
InitTwo == InitWith(Registries)

NextTwo ==
    \/ \E r \in Receivers, tok \in TwoTokens, i \in Impls : MethodTop(r, tok, i)
    \/ \E r \in live, a \in TwoArgs : MultimethodEnter(r, a)
    \/ MultimethodDispatch
    \/ MultimethodReturn
    \/ MultimethodDone

SpecTwo == InitTwo /\ [][NextTwo]_vars

\* ------------------------------------------------------------- properties

\* The invocation in progress is over and its arguments dispatched to a
\* dispatch value (dispatchFn returned).
Dispatched == pc = "done" /\ dispatchFn(args).k = "return"

\* The positions in the trace at which a method was called.
CallEvents == {n \in 1 .. Len(trace) : trace[n].e = "call"}

\* The positions in the trace at which the default slot was read.
DefaultReads == {n \in 1 .. Len(trace) : trace[n].key = defaultDispatch}

\* C1: in a multimethod created without a default method, an invocation
\* that dispatches to a value for which no method was registered throws
\* "No method defined for dispatch <value>" and calls no method.
C1_NoMethodDefined ==
    (Dispatched /\ defaultMethod[callee] = Undefined /\ found = 0)
        => /\ result = NoMethodDefined(args.type, args)
           /\ CallEvents = {}

\* C2: in a multimethod created with a default method, an invocation that
\* dispatches to a value for which no method was registered returns the
\* default method's result for the same arguments.
C2_DefaultResult ==
    (Dispatched /\ defaultMethod[callee] # Undefined /\ found = 0)
        => result = Call(defaultMethod[callee], args)

\* C3: an invocation that dispatches to a value for which method I was the
\* last one registered when the lookup ran ends as I ends on the same
\* arguments: I, and only I, was called.
C3_RegisteredResult ==
    (Dispatched /\ found > 0)
        => /\ result = Completion(IF ImplThrows(found) THEN "throw" ELSE "return",
                                  "method", found, args, "")
           /\ method = Fn(found)
           /\ \A n \in CallEvents : trace[n].v = Fn(found)

\* C3 witness: a method registered after creation, for a dispatch value that
\* had none, and an invocation dispatching to it that returned its result.
C3_Witness ==
    /\ Dispatched
    /\ found > 0
    /\ result.k = "return"
    /\ lastCall.recv = callee
    /\ lastCall.dispatch = args.type
    /\ lastCall.prev = 0
    /\ lastCall.method = found

\* C4: a .method call for a dispatch value that already has a method
\* returns without error and replaces it; an invocation whose lookup runs
\* after it calls the new method only, never the replaced one.
C4_LastWriterWins ==
    /\ lastCall.prev # 0
         => /\ lastCall.ret = lastCall.recv
            /\ registered[lastCall.recv][lastCall.dispatch] = lastCall.method
            /\ Lookup(methods[lastCall.recv], lastCall.dispatch)
                   = Fn(lastCall.method)
    /\ ( /\ pc \in {"method", "done"}
         /\ dispatchFn(args).k = "return"
         /\ callee = lastCall.recv
         /\ args.type = lastCall.dispatch
         /\ lastCall.prev \notin {0, lastCall.method}
         /\ found = lastCall.method )
         => /\ CallEvents # {}
            /\ \A n \in CallEvents :
                  trace[n].v = Fn(lastCall.method) /\ trace[n].v # Fn(lastCall.prev)

\* C4 witness: a dispatch value registered twice with different methods,
\* then invoked to the end.
C4_Witness ==
    /\ Dispatched
    /\ callee = lastCall.recv
    /\ args.type = lastCall.dispatch
    /\ lastCall.prev \notin {0, lastCall.method}
    /\ found = lastCall.method
    /\ result.k = "return"

\* C5: a .method call for dispatch value T leaves what every other dispatch
\* value U resolves to (a method, the default, or nothing) as it was.
C5_OtherTokensUnchanged ==
    [][methods' # methods =>
         \A r \in Registries, U \in Tokens \ {lastCall'.dispatch} :
            Lookup(methods'[r], U) = Lookup(methods[r], U)]_vars

\* C6: when a method is registered for the dispatch value, the invocation
\* calls it and never reads the default slot; the default slot is read only
\* right after a read of the dispatch value that found nothing.
C6_SpecificBeforeDefault ==
    /\ ( /\ pc \in {"method", "done"}
         /\ dispatchFn(args).k = "return"
         /\ defaultMethod[callee] # Undefined
         /\ found > 0 )
         => /\ DefaultReads = {}
            /\ method = Fn(found)
            /\ Cardinality(CallEvents) = 1
    /\ \A n \in DefaultReads :
          /\ n > 1
          /\ trace[n - 1] = Ev("get", StrKey(args.type), Undefined)

\* C6 witness: a multimethod with a default method and another method
\* registered for the dispatch value, invoked to the end.
C6_Witness ==
    /\ Dispatched
    /\ defaultMethod[callee] # Undefined
    /\ found > 0
    /\ Fn(found) # defaultMethod[callee]
    /\ result = Call(Fn(found), args)
    /\ result.k = "return"

\* C7: every .method call returns the multimethod it was called on, with the
\* method registered for the dispatch value (so that chained calls register
\* all their dispatch values).
C7_MethodReturnsMultimethod ==
    lastCall # NoCall
        => /\ lastCall.ret = lastCall.recv
           /\ registered[lastCall.recv][lastCall.dispatch] = lastCall.method

\* C8: the default slot of every multimethod always holds what was supplied
\* at creation (or nothing), whatever was registered; a fallback reads
\* exactly that.
C8_DefaultFixed ==
    /\ \A r \in Registries : Get(methods[r], defaultDispatch) = defaultMethod[r]
    /\ \A n \in DefaultReads : trace[n].v = defaultMethod[callee]

\* C8 witness: a multimethod with a default method in which another method
\* was registered for the string "defaultDispatch" and the prototype of
\* `methods` was replaced through "__proto__".
C8_Witness ==
    /\ defaultMethod["mm1"] # Undefined
    /\ registered["mm1"]["defaultDispatch"] # 0
    /\ Fn(registered["mm1"]["defaultDispatch"]) # defaultMethod["mm1"]
    /\ registered["mm1"]["__proto__"] # 0
    /\ lastCall.ret = "mm1"

\* C9: no step of an invocation (a step that moves it to its next position)
\* changes the methods object or the default slot.
C9_InvocationReadsOnly ==
    [][pc' # pc =>
         /\ methods' = methods
         /\ defaultMethod' = defaultMethod
         /\ registered' = registered]_vars

\* C9 witness: an invocation that found a method in a multimethod that has
\* no default method, and ran to its end.
C9_Witness ==
    /\ Dispatched
    /\ method # Undefined
    /\ defaultMethod[callee] = Undefined
    /\ lastCall # NoCall

\* C10: an error of dispatchFn is the invocation's outcome, with no property
\* read and no method called; an error of the resolved method is the
\* invocation's outcome, with that method the only one called.
C10_NoErrorRecovery ==
    /\ (pc = "done" /\ dispatchFn(args).k = "throw")
         => /\ result = Completion("throw", "dispatchFn", 0, args, "")
            /\ trace = << Ev("dispatchFn", StrKey(""), Undefined) >>
            /\ method = Undefined
    /\ (pc = "done" /\ method.t = "function" /\ ImplThrows(method.id))
         => /\ result = Completion("throw", "method", method.id, args, "")
            /\ Cardinality(CallEvents) = 1

\* C10 witness: the resolved method threw although a different default
\* method was there to fall back to.
C10_Witness ==
    /\ pc = "done"
    /\ method.t = "function"
    /\ ImplThrows(method.id)
    /\ defaultMethod[callee] # Undefined
    /\ defaultMethod[callee] # method
    /\ result.k = "throw"

\* C11: when the resolved method returns a nullish value, that return is
\* the invocation's outcome: the method is the only one called, there is no
\* fallback to the default method and no "No method defined" error.
C11_NullishResultReturned ==
    (pc = "done" /\ method.t = "function" /\ ImplReturnsNullish(method.id))
        => /\ result = Completion("return", "method", method.id, args, "")
           /\ ReturnsNullish(result)
           /\ Cardinality(CallEvents) = 1
           /\ \A n \in CallEvents : trace[n].v = method

\* C11 witness: a registered method returned undefined although a different
\* default method was there to fall back to.
C11_Witness ==
    /\ Dispatched
    /\ found > 0
    /\ method = Fn(found)
    /\ ImplReturnsNullish(found)
    /\ defaultMethod[callee] # Undefined
    /\ defaultMethod[callee] # method
    /\ ReturnsNullish(result)

\* The positions in the trace at which dispatchFn was called.
DispatchFnEvents == {n \in 1 .. Len(trace) : trace[n].e = "dispatchFn"}

\* The positions in the trace at which a property of `methods` was read.
GetEvents == {n \in 1 .. Len(trace) : trace[n].e = "get"}

\* The order of the events of an invocation whose dispatchFn has returned:
\* dispatchFn once and first, then the read of the dispatch value, then the
\* read of the default slot exactly when the first read found nothing, and
\* a call, if any, last and of the value the last read produced.
EventsInOrder ==
    /\ DispatchFnEvents = {1}
    /\ 2 \in GetEvents
    /\ trace[2].key = StrKey(args.type)
    /\ GetEvents = IF IsNullish(trace[2].v) THEN {2, 3} ELSE {2}
    /\ 3 \in GetEvents => trace[3].key = defaultDispatch
    /\ \A n \in CallEvents :
          /\ n = Len(trace)
          /\ n - 1 \in GetEvents
          /\ trace[n].v = trace[n - 1].v
    /\ Cardinality(CallEvents) <= 1

\* C12: every invocation whose dispatchFn returned runs its events in the
\* fixed order, and either calls exactly one method once, with the original
\* arguments, or calls none and fails with "No method defined".
C12_FixedOrder ==
    (pc \in {"method", "done"} /\ dispatchFn(args).k = "return")
        => /\ EventsInOrder
           /\ \/ /\ Cardinality(CallEvents) = 1
                 /\ pc = "done" /\ result.src = "method" => result.args = args
              \/ /\ CallEvents = {}
                 /\ pc = "done"
                 /\ result = NoMethodDefined(args.type, args)

\* Whether the `methods` object m holds a user-supplied method for dispatch
\* value T; the lookup of line 56 then resolves to it (it is not nullish),
\* not to the default and not to "No method defined".
HoldsMethod(m, T) == Get(m, StrKey(T)).t = "function"

\* The dispatch values for which the `methods` object of multimethod r
\* holds a user-supplied method.
RegisteredTokens(r) == {T \in Tokens : HoldsMethod(methods[r], T)}

\* The dispatch values for which a .method call on multimethod r has ever
\* completed (`registered` records every one and is never cleared).
EverRegistered(r) == {T \in Tokens : registered[r][T] # 0}

\* C13: in every state reached by registrations and invocations, every
\* dispatch value that was ever registered still holds a method, the one
\* registered last, so that line 56 resolves to it and neither to the
\* default nor to "No method defined"; the dispatch values that hold a
\* method are exactly those ever registered, none was taken out.
C13_NeverUnregistered ==
    \A r \in Registries :
       /\ RegisteredTokens(r) = EverRegistered(r)
       /\ \A T \in EverRegistered(r) :
             /\ Get(methods[r], StrKey(T)) = Fn(registered[r][T])
             /\ Lookup(methods[r], T) = Fn(registered[r][T])

\* C13 witness: three dispatch values hold a method, one of them was
\* registered again, and an invocation resolved a registered method.
C13_Witness ==
    /\ Cardinality(RegisteredTokens("mm1")) >= 3
    /\ lastCall.prev # 0
    /\ lastCall.ret = "mm1"
    /\ Dispatched
    /\ found > 0

\* C14: a step that changes the `methods` object of one multimethod is a
\* .method call on that multimethod and changes nothing of any other one:
\* every dispatch value resolves there as before and its default slot is as
\* before.  An invocation resolves its method in its own multimethod's
\* object and reads only its own multimethod's default.
C14_RegistriesIsolated ==
    /\ [][\A r \in Registries :
             methods'[r] # methods[r]
             => /\ lastCall'.recv = r
                /\ \A q \in Registries \ {r} :
                      /\ \A T \in Tokens :
                            Lookup(methods'[q], T) = Lookup(methods[q], T)
                      /\ Get(methods'[q], defaultDispatch)
                             = Get(methods[q], defaultDispatch)]_vars
    /\ []( /\ (pc \in {"method", "done"} /\ dispatchFn(args).k = "return")
                => method = Lookup(methods[callee], args.type)
           /\ \A n \in DefaultReads : trace[n].v = defaultMethod[callee] )

\* C14 witness: both multimethods have a default method, not the same one;
\* a method was registered for a dispatch value in the first only, and an
\* invocation of the second on that dispatch value returned the second's
\* own default method's result.
C14_Witness ==
    /\ live = Registries
    /\ defaultMethod["mm1"] # Undefined
    /\ defaultMethod["mm2"] # Undefined
    /\ defaultMethod["mm1"] # defaultMethod["mm2"]
    /\ registered["mm1"]["defaultDispatch"] # 0
    /\ registered["mm1"]["__proto__"] # 0
    /\ registered["mm2"]["defaultDispatch"] = 0
    /\ Dispatched
    /\ callee = "mm2"
    /\ args.type = "defaultDispatch"
    /\ result = Call(defaultMethod["mm2"], args)
    /\ result.k = "return"

\* C15: a .method call made while an invocation is in progress leaves the
\* invocation as it is (its resolved method, its arguments, its events), and
\* when the dispatch value of the invocation was registered again after the
\* lookup, the method resolved at the lookup is still the one, and the only
\* one, that runs, and its completion is the invocation's outcome.
C15_InFlightRegistration ==
    /\ [][(pc' = pc /\ pc # "idle")
             => /\ method' = method
                /\ args' = args
                /\ callee' = callee
                /\ trace' = trace
                /\ found' = found]_vars
    /\ []( ( /\ pc \in {"method", "done"}
             /\ dispatchFn(args).k = "return"
             /\ found > 0
             /\ registered[callee][args.type] # found )
           => /\ method = Fn(found)
              /\ Cardinality(CallEvents) = 1
              /\ \A n \in CallEvents : trace[n].v = Fn(found)
              /\ pc = "done" =>
                    result = Completion(IF ImplThrows(found) THEN "throw"
                                                             ELSE "return",
                                        "method", found, args, "") )

\* C15 witness: the method resolved for a dispatch value registered another
\* method for that same dispatch value while it ran, and returned.
C15_Witness ==
    /\ Dispatched
    /\ found > 0
    /\ registered[callee][args.type] # found
    /\ lastCall.recv = callee
    /\ lastCall.dispatch = args.type
    /\ lastCall.prev = found
    /\ lastCall.ret = callee
    /\ result.k = "return"
    /\ result.id = found

====
